---- MODULE Spec2Model ----
(***************************************************************************)
(* The toolset connection pool (ToolsetConnectionPool) and the TTL cache   *)
(* in front of it (AgentFactory) of src/src/core/agents.py.                *)
(*                                                                         *)
(* Spec      : the pool alone; every handler is one atomic action.         *)
(* SpecCache : the cache over the pool, one caller at a time.              *)
(* SpecConc  : threads call the cache handlers; the locks are explicit.    *)
(***************************************************************************)
EXTENDS Integers, Sequences, FiniteSets, TLC

\* ---------------------------------------------------------------- bounds

\* ToolsetConnectionPool(max_connections=10), scaled down.
MaxConnections == 2
\* A pool constructed with room for three idle handles per key.
LifoConnections == 6
\* Handles are 1..MaxHandles; creation is disabled once they are used up.
MaxHandles == 3

\* AgentFactory._cache_ttl, in seconds.
_cache_ttl == 300

\* The instants at which time.time() is read.
TimePoints == {0, 300, 301}

ServiceKeys == {"weather", "hotel"}
Threads == {"t1", "t2"}

NoHandle == 0
Handles == 1..MaxHandles
NoThread == "none"

\* ToolsetConnectionPool.max_connections, set by __init__ (line 20).
VARIABLE max_connections

\* ---------------------------------------------------------- dictionaries

EmptyDict == <<>>
Put(d, k, v) == [x \in (DOMAIN d) \cup {k} |-> IF x = k THEN v ELSE d[x]]
Remove(d, k) == [x \in (DOMAIN d) \ {k} |-> d[x]]

\* ------------------------------------------------- disposal of one handle

\* What a handle exposes: close and cleanup are each absent, a plain method
\* or a coroutine function; exc is what the body of a plain method raises
\* (a coroutine function raises nothing when it is called, only when run).
\* Only exceptions derived from Exception are drawn.
Shapes ==
    [close : {"absent", "sync", "async"},
     cleanup : {"absent", "sync", "async"},
     exc : {"none", "RuntimeError", "Exception"}]

\* toolset.close() / toolset.cleanup() as a plain call.
Invoke(kind, exc) ==
    IF kind = "async" THEN "coroutine"
    ELSE IF exc = "none" THEN "ok" ELSE "raised"

\* except RuntimeError (line 87)
InnerCatches(exc) == exc = "RuntimeError"

OuterCatchesOnlyRuntimeError(exc) == exc = "RuntimeError"

\* except Exception (line 96)
OuterCatches(exc) == exc \in {"RuntimeError", "Exception"}

Finished(calls) ==
    [calls |-> calls, warned |-> FALSE, leak |-> FALSE, propagated |-> FALSE]

\* An exception leaves the inner try statement: line 96 logs it, if caught.
Escaped(calls, exc) ==
    [calls |-> calls, warned |-> OuterCatches(exc), leak |-> FALSE,
     propagated |-> ~OuterCatches(exc)]

\* One plain call op() made from inside the outer try statement only.
CallThenFinish(calls, op, kind, exc) ==
    LET how == Invoke(kind, exc)
        now_calls == Append(calls, [op |-> op, how |-> how])
    IN IF how = "raised" THEN Escaped(now_calls, exc) ELSE Finished(now_calls)

\* Lines 88-95: the handler of RuntimeError.
sync_cleanup(shape, calls) ==
    IF shape.cleanup # "absent"
    THEN CallThenFinish(calls, "cleanup", shape.cleanup, shape.exc)
    ELSE IF shape.close = "sync"
    THEN CallThenFinish(calls, "close", shape.close, shape.exc)
    ELSE IF shape.close # "absent"
    THEN [Finished(calls) EXCEPT !.leak = TRUE]
    ELSE Finished(calls)

\* One plain call op() made inside the inner try statement (lines 74-86).
CallInLoop(shape, op, kind) ==
    LET how == Invoke(kind, shape.exc)
        calls == <<[op |-> op, how |-> how]>>
    IN IF how # "raised" THEN Finished(calls)
       ELSE IF InnerCatches(shape.exc) THEN sync_cleanup(shape, calls)
       ELSE Escaped(calls, shape.exc)

\* ToolsetConnectionPool._close_toolset; loop: an event loop is running.
_close_toolset(shape, loop) ==
    IF ~loop THEN sync_cleanup(shape, <<>>)
    ELSE IF shape.close = "async"
    THEN Finished(<<[op |-> "close", how |-> "scheduled"]>>)
    ELSE IF shape.close = "sync" THEN CallInLoop(shape, "close", "sync")
    ELSE IF shape.cleanup # "absent"
    THEN CallInLoop(shape, "cleanup", shape.cleanup)
    ELSE Finished(<<>>)

\* Lines 136-140 of _get_or_create_toolset: the expired handle's cleanup.
expired_cleanup(shape) ==
    IF shape.cleanup = "absent" THEN Finished(<<>>)
    ELSE LET how == Invoke(shape.cleanup, shape.exc)
             calls == <<[op |-> "cleanup", how |-> how]>>
         IN IF how = "raised"
            THEN [calls |-> calls, warned |-> TRUE, leak |-> FALSE,
                  propagated |-> FALSE]
            ELSE Finished(calls)

\* The disposal of a handle ended with an exception of one of its methods.
Failed(r) == r.calls # <<>> /\ r.calls[Len(r.calls)].how = "raised"

\* Every disposal operation the handle exposes raises (and it exposes one).
AllRaise(shape) ==
    /\ shape.close # "absent" \/ shape.cleanup # "absent"
    /\ shape.exc # "none"

\* A warning was logged: the leak of line 95, or the exception at line 97.
Logged(r) == r.warned \/ r.leak

\* What the caller of _close_toolset can tell of it: failed: the last method
\* called raised; silent: every disposal operation of the handle raises and
\* no warning was logged; propagated: the exception left _close_toolset.
Outcome(shape, r) ==
    [failed |-> Failed(r), silent |-> AllRaise(shape) /\ ~Logged(r),
     propagated |-> r.propagated]

\* The same of the cleanup of an expired handle, and whether it was called.
ExpiryOutcome(shape, r) ==
    [invoked |-> r.calls # <<>>, failed |-> Failed(r),
     silent |-> AllRaise(shape) /\ ~Logged(r)]

\* Everything _close_toolset can do to a handle, over all its shapes.
CloseResultsInLoop == {Outcome(s, _close_toolset(s, TRUE)) : s \in Shapes}
CloseResultsNoLoop == {Outcome(s, _close_toolset(s, FALSE)) : s \in Shapes}
CloseResults(loop) == IF loop THEN CloseResultsInLoop ELSE CloseResultsNoLoop
\* The callers' contexts: what _close_toolset can do in each.
Contexts == {CloseResults(loop) : loop \in BOOLEAN}
\* Everything the cleanup of an expired handle can do, over all shapes.
ExpiryResults == {ExpiryOutcome(s, expired_cleanup(s)) : s \in Shapes}
\* A handle that the handler does not dispose of, of any shape.
Undisposed == [failed |-> FALSE, silent |-> FALSE, propagated |-> FALSE]
Unexpired == [invoked |-> FALSE, failed |-> FALSE, silent |-> FALSE]

\* ------------------------------------------------- ToolsetConnectionPool

\* if self.connection_count[service_name] < self.max_connections (line 41)
UnderLimitInclusive(count) == count <= max_connections

UnderLimit(count) == count < max_connections

\* if len(pool) < self.max_connections // 2 (line 62)
HasRoomInclusive(pool) == Len(pool) <= max_connections \div 2

HasRoomOneLess(pool) == Len(pool) < (max_connections \div 2) - 1

HasRoom(pool) == Len(pool) < max_connections \div 2

PoppedFirst(pool) == [ret |-> Head(pool), rest |-> Tail(pool)]

\* toolset = pool.pop() (line 36): the last element of the list.
Popped(pool) ==
    [ret |-> pool[Len(pool)], rest |-> SubSeq(pool, 1, Len(pool) - 1)]

CountedBeforeConstruct(count, key) == Put(count, key, count[key] + 1)

\* MCPToolset(...) raised at line 44: line 45 was not reached.
CountAfterFailure(count, key) == count

\* ToolsetConnectionPool.get_toolset. ok: MCPToolset(...) constructs (it
\* raises otherwise); id: the handle it constructs; attempts: the
\* constructions it tried.
get_toolset(pools, count, key, ok, id) ==
    LET pools1 == IF key \in DOMAIN pools THEN pools ELSE Put(pools, key, <<>>)
        count1 == IF key \in DOMAIN pools THEN count ELSE Put(count, key, 0)
        pool == pools1[key]
    IN IF pool # <<>>
       THEN [pools |-> Put(pools1, key, Popped(pool).rest),
             count |-> count1, ret |-> Popped(pool).ret, raised |-> FALSE,
             how |-> "reused", capacity_warning |-> FALSE, attempts |-> 0]
       ELSE IF UnderLimit(count1[key])
       THEN IF ok
            THEN [pools |-> pools1, count |-> Put(count1, key, count1[key] + 1),
                  ret |-> id, raised |-> FALSE, how |-> "pooled",
                  capacity_warning |-> FALSE, attempts |-> 1]
            ELSE [pools |-> pools1, count |-> CountAfterFailure(count1, key),
                  ret |-> NoHandle, raised |-> TRUE, how |-> "none",
                  capacity_warning |-> FALSE, attempts |-> 1]
       ELSE IF ok
            THEN [pools |-> pools1, count |-> count1, ret |-> id,
                  raised |-> FALSE, how |-> "temporary",
                  capacity_warning |-> TRUE, attempts |-> 1]
            ELSE [pools |-> pools1, count |-> count1, ret |-> NoHandle,
                  raised |-> TRUE, how |-> "none", capacity_warning |-> TRUE,
                  attempts |-> 1]

\* ToolsetConnectionPool.return_toolset. r: what _close_toolset does to the
\* handle. closed: _close_toolset was called on it.
return_toolset(pools, count, key, h, r) ==
    IF key \notin DOMAIN pools
    THEN [pools |-> pools, count |-> count, raised |-> FALSE, how |-> "dropped",
          closed |-> {}]
    ELSE IF HasRoom(pools[key])
    THEN [pools |-> Put(pools, key, Append(pools[key], h)), count |-> count,
          raised |-> FALSE, how |-> "kept", closed |-> {}]
    ELSE IF r.propagated
    THEN [pools |-> pools, count |-> count, raised |-> TRUE, how |-> "closed",
          closed |-> {h}]
    ELSE [pools |-> pools, count |-> Put(count, key, count[key] - 1),
          raised |-> FALSE, how |-> "closed", closed |-> {h}]

\* The order in which a dictionary is walked. (Python walks it in insertion
\* order; the order shows only if a handler stops partway.)
KeyOrder == <<"weather", "hotel">>
KeySeq(S) == SelectSeq(KeyOrder, LAMBDA k : k \in S)

\* for toolset in pool: self._close_toolset(toolset) (lines 104-105): the
\* position of the first handle whose disposal propagates, 0 if none does.
FirstPropagating(pool, closing) ==
    IF \E i \in 1..Len(pool) : closing[pool[i]].propagated
    THEN CHOOSE i \in 1..Len(pool) :
            /\ closing[pool[i]].propagated
            /\ \A j \in 1..(i - 1) : ~closing[pool[j]].propagated
    ELSE 0

ResetSkipped(count, key) == count

\* self.connection_count[service_name] = 0 (line 107)
Reset(count, key) == Put(count, key, 0)

\* The loop of cleanup_all over self.pools.items() (lines 102-107), then
\* self.pools.clear() (line 108).
RECURSIVE cleanup_keys(_, _, _, _, _)
cleanup_keys(keys, pools, count, closed, closing) ==
    IF keys = <<>>
    THEN [pools |-> EmptyDict, count |-> count, raised |-> FALSE,
          closed |-> closed]
    ELSE LET k == Head(keys)
             pool == pools[k]
             stop == FirstPropagating(pool, closing)
         IN IF stop # 0
            THEN [pools |-> pools, count |-> count, raised |-> TRUE,
                  closed |-> closed \cup {pool[i] : i \in 1..stop}]
            ELSE cleanup_keys(Tail(keys), Put(pools, k, <<>>), Reset(count, k),
                              closed \cup {pool[i] : i \in 1..Len(pool)},
                              closing)

cleanup_all_without_clear(pools, count, closing) ==
    [pools |-> pools,
     count |-> [k \in DOMAIN count |-> IF k \in DOMAIN pools THEN 0
                                       ELSE count[k]],
     raised |-> FALSE,
     closed |-> UNION {{pools[k][i] : i \in 1..Len(pools[k])} :
                          k \in DOMAIN pools}]

\* ToolsetConnectionPool.cleanup_all. closing[h]: what _close_toolset does
\* to handle h.
cleanup_all(pools, count, closing) ==
    cleanup_keys(KeySeq(DOMAIN pools), pools, count, {}, closing)

\* --------------------------------------------------------- AgentFactory

FreshIgnoringCreation(current_time, creation_time) == current_time < _cache_ttl

FreshInclusive(current_time, creation_time) ==
    current_time - creation_time <= _cache_ttl

\* if current_time - creation_time < AgentFactory._cache_ttl (line 129)
Fresh(current_time, creation_time) ==
    current_time - creation_time < _cache_ttl

EvictionDeferred(cache, key) == cache

\* old_toolset = AgentFactory._toolsets_cache.pop(service_name, None)
\* (line 135), before the pool is asked.
Evict(cache, key) == Remove(cache, key)

\* AgentFactory._get_or_create_toolset. expired: the handle evicted;
\* acquires: the calls of _connection_pool.get_toolset made.
get_or_create_toolset(cache, stamps, pools, count, key, current_time, ok, id) ==
    LET cached == key \in DOMAIN cache
        creation_time == IF key \in DOMAIN stamps THEN stamps[key] ELSE 0
        same == [cache |-> cache, stamps |-> stamps, pools |-> pools,
                 count |-> count]
    IN IF cached /\ Fresh(current_time, creation_time)
       THEN [state |-> same, ret |-> cache[key], raised |-> FALSE,
             how |-> "cached", acquires |-> 0, attempts |-> 0,
             expired |-> NoHandle, capacity_warning |-> FALSE]
       ELSE LET cache1 == IF cached THEN Evict(cache, key) ELSE cache
                old == IF cached THEN cache[key] ELSE NoHandle
                g == get_toolset(pools, count, key, ok, id)
            IN IF g.raised
               THEN [state |-> [cache |-> cache1, stamps |-> stamps,
                                pools |-> g.pools, count |-> g.count],
                     ret |-> NoHandle, raised |-> TRUE, how |-> "none",
                     acquires |-> 1, attempts |-> g.attempts,
                     expired |-> old,
                     capacity_warning |-> g.capacity_warning]
               ELSE [state |-> [cache |-> Put(cache1, key, g.ret),
                                stamps |-> Put(stamps, key, current_time),
                                pools |-> g.pools, count |-> g.count],
                     ret |-> g.ret, raised |-> FALSE, how |-> g.how,
                     acquires |-> 1, attempts |-> g.attempts,
                     expired |-> old,
                     capacity_warning |-> g.capacity_warning]

\* The loop of cleanup_toolsets over _toolsets_cache.items() (lines 254-260);
\* an exception of return_toolset is logged there.
RECURSIVE return_cached(_, _, _, _, _, _)
return_cached(keys, cache, pools, count, closed, closing) ==
    IF keys = <<>>
    THEN [pools |-> pools, count |-> count, closed |-> closed]
    ELSE LET k == Head(keys)
             r == return_toolset(pools, count, k, cache[k], closing[cache[k]])
         IN return_cached(Tail(keys), cache, r.pools, r.count,
                          closed \cup r.closed, closing)

cleanup_toolsets_without_cleanup_all(cache, stamps, pools, count, closing) ==
    LET back == return_cached(KeySeq(DOMAIN cache), cache, pools, count, {},
                              closing)
    IN [state |-> [cache |-> EmptyDict, stamps |-> EmptyDict,
                   pools |-> back.pools, count |-> back.count],
        raised |-> FALSE, closed |-> back.closed]

\* AgentFactory.cleanup_toolsets.
cleanup_toolsets(cache, stamps, pools, count, closing) ==
    LET back == return_cached(KeySeq(DOMAIN cache), cache, pools, count, {},
                              closing)
        all == cleanup_all(back.pools, back.count, closing)
    IN [state |-> [cache |-> EmptyDict, stamps |-> EmptyDict,
                   pools |-> all.pools, count |-> all.count],
        raised |-> all.raised, closed |-> back.closed \cup all.closed]


\* ---------------------------------------------------------------- state

VARIABLES
    pools,              \* ToolsetConnectionPool.pools: key -> list of handles
    connection_count,   \* ToolsetConnectionPool.connection_count
    _toolsets_cache,    \* AgentFactory._toolsets_cache: key -> handle
    _creation_timestamps, \* AgentFactory._creation_timestamps: key -> time
    now,                \* what time.time() returns
    next_id,            \* the next handle MCPToolset(...) constructs
    held,               \* <<key, handle>>: got from get_toolset, not returned
    obs,                \* what the last handler called did (Spec, SpecCache)
    pool_lock,          \* ToolsetConnectionPool.lock: the thread holding it
    cache_lock,         \* AgentFactory._lock: the thread holding it
    call,               \* per thread: the handler it is in, and its locals
    plan,               \* a call of plan_trip_coordinated (SpecPlan); a
                        \* TravelPlanningSystem and its calls (SpecSystem)
    disposal,           \* a call of _close_toolset on one handle (SpecClose)
    tracked             \* the handles line 45 counted when constructed

conc == <<pool_lock, cache_lock, call>>
\* What no handler of the pool or of the cache changes.
beside == <<max_connections, plan, disposal>>
apart == <<beside, tracked>>
vars == <<max_connections, pools, connection_count, _toolsets_cache,
          _creation_timestamps, now, next_id, held, obs, pool_lock,
          cache_lock, call, plan, disposal, tracked>>

\* self.connection_count[service_name] += 1 (line 45) counts the handle
\* just constructed; no other line does.
Counted(g) == IF g.how = "pooled" THEN tracked \cup {g.ret} ELSE tracked

\* A thread's call: op, key: the handler and its argument; pc: where it is;
\* stale: the key had no entry younger than the TTL when it was called;
\* current_time, ret, raised: its local, what it returned, that it raised;
\* acquires: its calls of the pool's get_toolset; peers: the threads whose
\* call for the same key overlaps this one; disturbed: cleanup_toolsets ran
\* while it was under way.
Idle == [op |-> "idle", pc |-> "idle", key |-> "", stale |-> FALSE,
         ret |-> NoHandle, raised |-> FALSE, current_time |-> 0,
         acquires |-> 0, peers |-> {}, disturbed |-> FALSE]

\* op: the handler called; key, arg: its arguments; found: the length of the
\* free list it found (-1: none); again: it was called right after itself;
\* ret, raised: what it returned or that it raised; how: the branch taken;
\* acquires: its calls of the pool's get_toolset; attempts: the
\* constructions of a handle tried for it; passed: the handles it
\* had to return or dispose of; closed: those it called a disposal on;
\* failed: those whose disposal ended with an exception; silent: those it
\* had to dispose of whose every disposal operation raises and for which
\* it logged no warning.
NoObs ==
    [op |-> "init", key |-> "", arg |-> NoHandle, found |-> -1,
     again |-> FALSE, ret |-> NoHandle, raised |-> FALSE, how |-> "none",
     acquires |-> 0, attempts |-> 0, passed |-> {}, closed |-> {},
     failed |-> {}, silent |-> {}]

\* No call of plan_trip_coordinated, none of _close_toolset on its own.
NoPlan == [pc |-> "none"]
NoDisposal == [pc |-> "none"]

\* ToolsetConnectionPool.__init__(max_connections=limit) and the class
\* attributes of AgentFactory.
PoolAndCache(limit) ==
    /\ max_connections = limit
    /\ pools = EmptyDict
    /\ connection_count = EmptyDict
    /\ _toolsets_cache = EmptyDict
    /\ _creation_timestamps = EmptyDict
    /\ now = 0
    /\ next_id = 1
    /\ held = {}
    /\ obs = NoObs
    /\ pool_lock = NoThread
    /\ cache_lock = NoThread
    /\ call = [t \in Threads |-> Idle]
    /\ tracked = {}

Constructed(limit) ==
    PoolAndCache(limit) /\ plan = NoPlan /\ disposal = NoDisposal

Init == Constructed(MaxConnections)

IdleHandles(p) == UNION {{p[k][i] : i \in 1..Len(p[k])} : k \in DOMAIN p}
CachedHandles(c) == {c[k] : k \in DOMAIN c}

\* ----------------------------- Spec, SpecCache: one caller at a time

\* A caller takes a handle of service k from the pool. (ok is drawn only
\* where a handle is constructed.)
GetToolset(k, ok) ==
    \E g \in {get_toolset(pools, connection_count, k, ok, next_id)} :
    LET created == g.how \in {"pooled", "temporary"}
    IN /\ g.how = "reused" => ok
       /\ created => next_id <= MaxHandles
       /\ pools' = g.pools
       /\ connection_count' = g.count
       /\ next_id' = IF created THEN next_id + 1 ELSE next_id
       /\ held' = IF g.raised THEN held ELSE held \cup {<<k, g.ret>>}
       /\ obs' = [NoObs EXCEPT !.op = "get_toolset", !.key = k,
                               !.ret = g.ret, !.raised = g.raised,
                               !.how = g.how, !.acquires = 1,
                                  !.attempts = g.attempts]
       /\ tracked' = Counted(g)
       /\ UNCHANGED <<beside, _toolsets_cache, _creation_timestamps, now,
                      conc>>

\* A caller gives a handle it took back to the pool. results: what
\* _close_toolset can do where the caller runs (in an event loop or not);
\* the handle's disposal is drawn from it only where it is disposed of.
ReturnToolset(k, h, results) ==
    /\ <<k, h>> \in held
    /\ LET closes == k \in DOMAIN pools /\ ~HasRoom(pools[k])
       IN \E r \in (IF closes THEN results ELSE {Undisposed}) :
             \E b \in {return_toolset(pools, connection_count, k, h, r)} :
                /\ pools' = b.pools
                /\ connection_count' = b.count
                /\ held' = held \ {<<k, h>>}
                /\ obs' = [NoObs EXCEPT
                             !.op = "return_toolset", !.key = k, !.arg = h,
                             !.found = IF k \in DOMAIN pools
                                       THEN Len(pools[k]) ELSE -1,
                             !.raised = b.raised, !.how = b.how,
                             !.passed = {h}, !.closed = b.closed,
                             !.failed = {x \in b.closed : r.failed},
                             !.silent = {x \in b.closed : r.silent}]
    /\ UNCHANGED <<apart,
                   _toolsets_cache, _creation_timestamps, now, next_id, conc>>

\* A caller tears the pool down.
CleanupAll(results) ==
    /\ \E closing \in [IdleHandles(pools) -> results] :
       \E a \in {cleanup_all(pools, connection_count, closing)} :
          /\ pools' = a.pools
          /\ connection_count' = a.count
          /\ obs' = [NoObs EXCEPT
                       !.op = "cleanup_all", !.again = (obs.op = "cleanup_all"),
                       !.raised = a.raised,
                       !.passed = IdleHandles(pools), !.closed = a.closed,
                       !.failed = {x \in a.closed : closing[x].failed},
                       !.silent = {x \in a.closed : closing[x].silent}]
    /\ UNCHANGED <<apart,
                   _toolsets_cache, _creation_timestamps, now, next_id, held,
                   conc>>

\* The owning component asks the cache for the handle of service k. exp:
\* what the cleanup of the expired handle does, if one is evicted.
GetOrCreateToolset(k, ok) ==
    \E g \in {get_or_create_toolset(_toolsets_cache, _creation_timestamps,
                                    pools, connection_count, k, now, ok,
                                    next_id)} :
    LET created == g.how \in {"pooled", "temporary"}
        old == IF g.expired = NoHandle THEN {} ELSE {g.expired}
    IN /\ g.how \in {"cached", "reused"} => ok
       /\ created => next_id <= MaxHandles
       /\ _toolsets_cache' = g.state.cache
       /\ _creation_timestamps' = g.state.stamps
       /\ pools' = g.state.pools
       /\ connection_count' = g.state.count
       /\ next_id' = IF created THEN next_id + 1 ELSE next_id
       /\ \E exp \in (IF old = {} THEN {Unexpired} ELSE ExpiryResults) :
             obs' = [NoObs EXCEPT
                       !.op = "_get_or_create_toolset", !.key = k,
                       !.arg = g.expired, !.ret = g.ret, !.raised = g.raised,
                       !.how = g.how, !.acquires = g.acquires,
                       !.attempts = g.attempts, !.passed = old,
                       !.closed = {x \in old : exp.invoked},
                       !.failed = {x \in old : exp.failed},
                       !.silent = {x \in old : exp.silent}]
       /\ tracked' = Counted(g)
       /\ UNCHANGED <<beside, now, held, conc>>

\* The owning component shuts down.
CleanupToolsets(results) ==
    LET handles == IdleHandles(pools) \cup CachedHandles(_toolsets_cache)
    IN /\ \E closing \in [handles -> results] :
          \E c \in {cleanup_toolsets(_toolsets_cache, _creation_timestamps,
                                     pools, connection_count, closing)} :
             /\ _toolsets_cache' = c.state.cache
             /\ _creation_timestamps' = c.state.stamps
             /\ pools' = c.state.pools
             /\ connection_count' = c.state.count
             /\ obs' = [NoObs EXCEPT
                          !.op = "cleanup_toolsets", !.raised = c.raised,
                          !.passed = handles, !.closed = c.closed,
                          !.failed = {x \in c.closed : closing[x].failed},
                          !.silent = {x \in c.closed : closing[x].silent}]
       /\ UNCHANGED <<apart, now, next_id, held, conc>>

\* Time passes.
Tick ==
    /\ \E t \in TimePoints : t > now /\ now' = t
    /\ obs' = [NoObs EXCEPT !.op = "tick"]
    /\ UNCHANGED <<apart, pools, connection_count, _toolsets_cache,
                   _creation_timestamps, next_id, held, conc>>

\* The pool and its callers.
Next ==
    \/ \E k \in ServiceKeys, ok \in BOOLEAN : GetToolset(k, ok)
    \/ \E k \in ServiceKeys, h \in Handles, results \in Contexts :
          ReturnToolset(k, h, results)
    \/ \E results \in Contexts : CleanupAll(results)

Spec == Init /\ [][Next]_vars

\* The same pool constructed with max_connections = LifoConnections: its
\* free lists hold several handles.
SpecLifo == Constructed(LifoConnections) /\ [][Next]_vars

\* The cache over the pool: the owning component, and next to it one caller
\* of the pool, which gives its handle back before it takes another.
NextCache ==
    \/ \E k \in ServiceKeys, ok \in BOOLEAN : held = {} /\ GetToolset(k, ok)
    \/ \E k \in ServiceKeys, h \in Handles, results \in Contexts :
          ReturnToolset(k, h, results)
    \/ \E results \in Contexts : CleanupAll(results)
    \/ \E k \in ServiceKeys, ok \in BOOLEAN : GetOrCreateToolset(k, ok)
    \/ \E results \in Contexts : CleanupToolsets(results)
    \/ Tick

SpecCache == Init /\ [][NextCache]_vars


\* ------------------------------------ SpecConc: threads and their locks

\* Leaving a with statement releases the lock the thread holds.
Release(lock, t) == IF lock = t THEN NoThread ELSE lock

ReleasedAfterCheck(t) == NoThread

\* with AgentFactory._lock (line 124) spans the lookup, the eviction and the
\* refresh (lines 125-151): who holds the lock after the lookup missed.
HolderAfterMiss(t) == t

Returned(t) == call[t].pc \in {"idle", "done"}
InLookup(t) ==
    call[t].op = "_get_or_create_toolset" /\ ~Returned(t)

\* Thread t calls _get_or_create_toolset(k) and reaches line 124.
CallGetOrCreate(t, k) ==
    /\ Returned(t)
    /\ LET others == {u \in Threads \ {t} : InLookup(u) /\ call[u].key = k}
           creation_time == IF k \in DOMAIN _creation_timestamps
                            THEN _creation_timestamps[k] ELSE 0
           mine == [Idle EXCEPT
                      !.op = "_get_or_create_toolset", !.pc = "lock",
                      !.key = k, !.peers = others,
                      !.stale = ~(/\ k \in DOMAIN _toolsets_cache
                                  /\ Fresh(now, creation_time))]
       IN call' = [u \in Threads |->
                     IF u = t THEN mine
                     ELSE [call[u] EXCEPT
                             !.peers = IF u \in others THEN @ \cup {t}
                                       ELSE @ \ {t}]]
    /\ UNCHANGED <<apart, pools, connection_count, _toolsets_cache,
                   _creation_timestamps, now, next_id, held, obs, pool_lock,
                   cache_lock>>

\* Thread t calls cleanup_toolsets and reaches line 253.
CallCleanupToolsets(t) ==
    /\ Returned(t)
    /\ call' = [u \in Threads |->
                  IF u = t
                  THEN [Idle EXCEPT !.op = "cleanup_toolsets", !.pc = "lock"]
                  ELSE [call[u] EXCEPT !.peers = @ \ {t}]]
    /\ UNCHANGED <<apart, pools, connection_count, _toolsets_cache,
                   _creation_timestamps, now, next_id, held, obs, pool_lock,
                   cache_lock>>

\* with AgentFactory._lock: the thread gets the lock (lines 124, 253).
EnterCache(t) ==
    /\ call[t].pc = "lock"
    /\ call[t].op \in {"_get_or_create_toolset", "cleanup_toolsets"}
    /\ cache_lock = NoThread
    /\ cache_lock' = t
    /\ call' = [call EXCEPT ![t].pc = IF call[t].op = "cleanup_toolsets"
                                      THEN "teardown" ELSE "check"]
    /\ UNCHANGED <<apart, pools, connection_count, _toolsets_cache,
                   _creation_timestamps, now, next_id, held, obs, pool_lock>>

\* Lines 126-140: the lookup; a hit returns, a miss evicts the entry. (The
\* cleanup of the evicted handle changes nothing here: what it raises is
\* caught at line 139.)
CheckCache(t) ==
    /\ call[t].pc = "check"
    /\ LET k == call[t].key
           cached == k \in DOMAIN _toolsets_cache
           creation_time == IF k \in DOMAIN _creation_timestamps
                            THEN _creation_timestamps[k] ELSE 0
       IN IF cached /\ Fresh(now, creation_time)
          THEN /\ call' = [call EXCEPT ![t].pc = "done",
                                       ![t].current_time = now,
                                       ![t].ret = _toolsets_cache[k]]
               /\ cache_lock' = Release(cache_lock, t)
               /\ UNCHANGED _toolsets_cache
          ELSE /\ call' = [call EXCEPT ![t].pc = "evicted",
                                       ![t].current_time = now]
               /\ cache_lock' = HolderAfterMiss(t)
               /\ _toolsets_cache' = IF cached THEN Remove(_toolsets_cache, k)
                                     ELSE _toolsets_cache
    /\ UNCHANGED <<apart, pools, connection_count, _creation_timestamps, now,
                   next_id, held, obs, pool_lock>>

\* with self.lock of get_toolset (line 27): the thread gets the pool's lock.
EnterPool(t) ==
    /\ call[t].pc = "evicted"
    /\ pool_lock = NoThread
    /\ pool_lock' = t
    /\ call' = [call EXCEPT ![t].pc = "pool"]
    /\ UNCHANGED <<apart, pools, connection_count, _toolsets_cache,
                   _creation_timestamps, now, next_id, held, obs, cache_lock>>

\* Lines 28-55, then lines 145-151: the pool hands a handle out, or raises;
\* the handle is stored as of current_time; both locks are released.
StoreToolset(t, ok) ==
    /\ call[t].pc = "pool" /\ call[t].op = "_get_or_create_toolset"
    /\ \E g \in {get_toolset(pools, connection_count, call[t].key, ok,
                             next_id)} :
       LET created == g.how \in {"pooled", "temporary"}
           k == call[t].key
       IN /\ g.how = "reused" => ok
          /\ created => next_id <= MaxHandles
          /\ pools' = g.pools
          /\ connection_count' = g.count
          /\ next_id' = IF created THEN next_id + 1 ELSE next_id
          /\ _toolsets_cache' = IF g.raised THEN _toolsets_cache
                                ELSE Put(_toolsets_cache, k, g.ret)
          /\ _creation_timestamps' =
                IF g.raised THEN _creation_timestamps
                ELSE Put(_creation_timestamps, k, call[t].current_time)
          /\ call' = [call EXCEPT ![t].pc = "done", ![t].ret = g.ret,
                                  ![t].raised = g.raised, ![t].acquires = 1]
          /\ tracked' = Counted(g)
    /\ pool_lock' = Release(pool_lock, t)
    /\ cache_lock' = Release(cache_lock, t)
    /\ UNCHANGED <<beside, now, held, obs>>

\* Lines 254-265: the body of cleanup_toolsets; return_toolset and
\* cleanup_all get the pool's lock in turn.
Teardown(t, results) ==
    /\ call[t].pc = "teardown"
    /\ pool_lock = NoThread
    /\ LET handles == IdleHandles(pools) \cup CachedHandles(_toolsets_cache)
       IN \E closing \in [handles -> results] :
          \E c \in {cleanup_toolsets(_toolsets_cache, _creation_timestamps,
                                     pools, connection_count, closing)} :
             /\ _toolsets_cache' = c.state.cache
             /\ _creation_timestamps' = c.state.stamps
             /\ pools' = c.state.pools
             /\ connection_count' = c.state.count
             /\ call' = [u \in Threads |->
                           IF u = t
                           THEN [call[u] EXCEPT !.pc = "done",
                                                !.raised = c.raised]
                           ELSE IF InLookup(u)
                           THEN [call[u] EXCEPT !.disturbed = TRUE]
                           ELSE call[u]]
    /\ cache_lock' = Release(cache_lock, t)
    /\ UNCHANGED <<apart, now, next_id, held, obs, pool_lock>>

\* Time passes while the threads run.
TickConc ==
    /\ \E t \in TimePoints : t > now /\ now' = t
    /\ UNCHANGED <<apart, pools, connection_count, _toolsets_cache,
                   _creation_timestamps, next_id, held, obs, conc>>

NextConc ==
    \/ \E t \in Threads, k \in ServiceKeys : CallGetOrCreate(t, k)
    \/ \E t \in Threads : CallCleanupToolsets(t)
    \/ \E t \in Threads : EnterCache(t)
    \/ \E t \in Threads : CheckCache(t)
    \/ \E t \in Threads : EnterPool(t)
    \/ \E t \in Threads, ok \in BOOLEAN : StoreToolset(t, ok)
    \/ \E t \in Threads, results \in Contexts : Teardown(t, results)
    \/ TickConc

SpecConc == Init /\ [][NextConc]_vars


\* --------------------------- SpecPool: threads calling the pool directly

WaitsForRelease(pools_, count, key) ==
    IF key \notin DOMAIN pools_ THEN TRUE
    ELSE IF pools_[key] # <<>> THEN TRUE
    ELSE UnderLimit(count[key])

\* Lines 32-55: no branch of get_toolset waits; with the free list empty and
\* the count at the ceiling the else branch (lines 51-55) constructs.
MayProceed(pools_, count, key) == TRUE

InGetToolset(t) == call[t].op = "get_toolset" /\ ~Returned(t)

\* Thread t calls get_toolset(k) and reaches line 27. (A call is started
\* only while a handle is left for it to construct.)
CallGetToolset(t, k) ==
    /\ Returned(t)
    /\ next_id + Cardinality({u \in Threads : InGetToolset(u)}) <= MaxHandles
    /\ call' = [call EXCEPT ![t] = [Idle EXCEPT !.op = "get_toolset",
                                                !.pc = "lock", !.key = k]]
    /\ UNCHANGED <<apart, pools, connection_count, _toolsets_cache,
                   _creation_timestamps, now, next_id, held, obs, pool_lock,
                   cache_lock>>

\* Thread t calls return_toolset(k, h) with a handle taken before, and
\* reaches line 59.
CallReturnToolset(t, k, h) ==
    /\ Returned(t)
    /\ <<k, h>> \in held
    /\ held' = held \ {<<k, h>>}
    /\ call' = [call EXCEPT ![t] = [Idle EXCEPT !.op = "return_toolset",
                                                !.pc = "lock", !.key = k,
                                                !.ret = h]]
    /\ UNCHANGED <<apart, pools, connection_count, _toolsets_cache,
                   _creation_timestamps, now, next_id, obs, pool_lock,
                   cache_lock>>

\* with self.lock (lines 27, 59): the thread gets the pool's lock.
LockPool(t) ==
    /\ call[t].pc = "lock"
    /\ call[t].op \in {"get_toolset", "return_toolset", "cleanup_all"}
    /\ pool_lock = NoThread
    /\ pool_lock' = t
    /\ call' = [call EXCEPT ![t].pc = "pool"]
    /\ UNCHANGED <<apart, pools, connection_count, _toolsets_cache,
                   _creation_timestamps, now, next_id, held, obs, cache_lock>>

\* Lines 28-55 under the lock, and the release of the lock on the way out.
GetToolsetBody(t, ok) ==
    /\ call[t].pc = "pool" /\ call[t].op = "get_toolset"
    /\ MayProceed(pools, connection_count, call[t].key)
    /\ \E g \in {get_toolset(pools, connection_count, call[t].key, ok,
                             next_id)} :
       LET created == g.how \in {"pooled", "temporary"}
       IN /\ g.how = "reused" => ok
          /\ pools' = g.pools
          /\ connection_count' = g.count
          /\ next_id' = IF created THEN next_id + 1 ELSE next_id
          /\ held' = IF g.raised THEN held
                     ELSE held \cup {<<call[t].key, g.ret>>}
          /\ call' = [call EXCEPT ![t].pc = "done", ![t].ret = g.ret,
                                  ![t].raised = g.raised, ![t].acquires = 1]
          /\ obs' = [NoObs EXCEPT !.op = "get_toolset", !.key = call[t].key,
                                  !.ret = g.ret, !.raised = g.raised,
                                  !.how = g.how, !.acquires = 1,
                                  !.attempts = g.attempts]
          /\ tracked' = Counted(g)
    /\ pool_lock' = Release(pool_lock, t)
    /\ UNCHANGED <<beside,
                   _toolsets_cache, _creation_timestamps, now, cache_lock>>

\* Lines 60-68 under the lock, and the release of the lock on the way out.
ReturnToolsetBody(t, results) ==
    /\ call[t].pc = "pool" /\ call[t].op = "return_toolset"
    /\ LET k == call[t].key
           h == call[t].ret
           closes == k \in DOMAIN pools /\ ~HasRoom(pools[k])
       IN \E r \in (IF closes THEN results ELSE {Undisposed}) :
          \E b \in {return_toolset(pools, connection_count, k, h, r)} :
             /\ pools' = b.pools
             /\ connection_count' = b.count
             /\ call' = [call EXCEPT ![t].pc = "done",
                                     ![t].raised = b.raised]
             /\ obs' = [NoObs EXCEPT
                          !.op = "return_toolset", !.key = k, !.arg = h,
                          !.found = IF k \in DOMAIN pools
                                    THEN Len(pools[k]) ELSE -1,
                          !.raised = b.raised, !.how = b.how,
                          !.passed = {h}, !.closed = b.closed,
                          !.failed = {x \in b.closed : r.failed},
                          !.silent = {x \in b.closed : r.silent}]
    /\ pool_lock' = Release(pool_lock, t)
    /\ UNCHANGED <<apart,
                   _toolsets_cache, _creation_timestamps, now, next_id, held,
                   cache_lock>>

NextPool ==
    \/ \E t \in Threads, k \in ServiceKeys : CallGetToolset(t, k)
    \/ \E t \in Threads, k \in ServiceKeys, h \in Handles :
          CallReturnToolset(t, k, h)
    \/ \E t \in Threads : LockPool(t)
    \/ \E t \in Threads, ok \in BOOLEAN : GetToolsetBody(t, ok)
    \/ \E t \in Threads, results \in Contexts : ReturnToolsetBody(t, results)

\* Fair scheduling: a thread that can run its body does so; a thread
\* waiting for the lock gets it if it is free again and again. Nothing
\* obliges a caller to call, so no release is ever owed.
FairPool ==
    \A t \in Threads :
       /\ SF_vars(LockPool(t))
       /\ WF_vars(\E ok \in BOOLEAN : GetToolsetBody(t, ok))
       /\ WF_vars(\E results \in Contexts : ReturnToolsetBody(t, results))

SpecPool == Init /\ [][NextPool]_vars /\ FairPool

\* ------------------------- SpecPlan: TravelPlanningSystem (system.py)

\* The events run_async yields to one call, at most.
MaxEvents == 2

\* What create_session or run_async can raise (classes derived from
\* Exception), and the texts an event can carry.
PlanExceptions == {"ConnectionError", "ValueError"}
Texts == {"", "a", "b"}
TextLists == {<<>>} \cup {<<x>> : x \in Texts}
                \cup {<<x, y>> : x \in {"a"}, y \in Texts}

\* An event of the runner: content is absent, has parts, has a text of its
\* own, or shows its texts only in str(content).
Events == [kind : {"no_content", "parts", "text", "repr"}, texts : TextLists]

\* Lines 137-166 of system.py: the texts one event adds to responses.
Extract(ev) ==
    IF ev.kind = "no_content" THEN <<>>
    ELSE IF ev.kind = "parts"
    THEN SelectSeq(ev.texts, LAMBDA x : x # "")
    ELSE IF ev.kind = "text"
    THEN IF ev.texts # <<>> /\ ev.texts[1] # "" THEN <<ev.texts[1]>> ELSE <<>>
    ELSE IF ev.texts # <<>> THEN <<ev.texts[1]>> ELSE <<>>

PlanCatchesOnlyConnectionError(exc) == exc = "ConnectionError"

\* except Exception as e (system.py line 175)
PlanCatches(exc) == exc \in PlanExceptions

\* Lines 175-181 of system.py, or the exception leaving the coroutine.
PlanFailed(p, stage, exc) ==
    IF PlanCatches(exc)
    THEN [p EXCEPT !.pc = "done", !.failed = stage, !.status = "error",
                   !.workflow_type = "coordinated", !.error = exc]
    ELSE [p EXCEPT !.pc = "done", !.failed = stage, !.raised = TRUE]

\* plan_trip_coordinated is called (system.py line 103).
StartedPlan ==
    [pc |-> "session", failed |-> "none", raised |-> FALSE, events |-> 0,
     responses |-> <<>>, status |-> "none", workflow_type |-> "none",
     result |-> <<>>, error |-> "none"]

InitPlan ==
    PoolAndCache(MaxConnections) /\ plan = StartedPlan
       /\ disposal = NoDisposal

NotPlan == <<max_connections, pools, connection_count, _toolsets_cache,
             _creation_timestamps, now, next_id, held, obs, pool_lock,
             cache_lock, call, disposal, tracked>>

\* await self.session_service.create_session(...) (system.py lines 113-117)
CreateSession(ok, exc) ==
    /\ plan.pc = "session"
    /\ plan' = IF ok THEN [plan EXCEPT !.pc = "run"]
               ELSE PlanFailed(plan, "session", exc)
    /\ UNCHANGED NotPlan

\* One turn of async for event in self.runner.run_async(...) (system.py
\* lines 129-166).
ReceiveEvent(ev) ==
    /\ plan.pc = "run"
    /\ plan.events < MaxEvents
    /\ plan' = [plan EXCEPT !.events = @ + 1,
                            !.responses = @ \o Extract(ev)]
    /\ UNCHANGED NotPlan

\* run_async raises, at the start or between two events.
RunRaises(exc) ==
    /\ plan.pc = "run"
    /\ plan' = PlanFailed(plan, "run", exc)
    /\ UNCHANGED NotPlan

\* run_async is exhausted (system.py lines 168-174); result: the lines of
\* the joined text.
RunEnds ==
    /\ plan.pc = "run"
    /\ plan' = [plan EXCEPT
                  !.pc = "done", !.status = "success",
                  !.workflow_type = "coordinated",
                  !.result = IF plan.responses # <<>> THEN plan.responses
                             ELSE <<"No response generated">>]
    /\ UNCHANGED NotPlan

NextPlan ==
    \/ \E ok \in BOOLEAN, exc \in PlanExceptions : CreateSession(ok, exc)
    \/ \E ev \in Events : ReceiveEvent(ev)
    \/ \E exc \in PlanExceptions : RunRaises(exc)
    \/ RunEnds

SpecPlan == InitPlan /\ [][NextPlan]_vars

\* ---------------------- SpecClose: _close_toolset on one handle, alone

\* _close_toolset is called on a handle of some shape, with or without a
\* running event loop.
InitClose ==
    /\ PoolAndCache(MaxConnections) /\ plan = NoPlan
    /\ disposal \in [pc : {"called"}, shape : Shapes, loop : BOOLEAN,
                     r : {Finished(<<>>)}]

\* ToolsetConnectionPool._close_toolset runs to its end.
CloseToolset ==
    /\ disposal.pc = "called"
    /\ disposal' = [disposal EXCEPT
                      !.pc = "done",
                      !.r = _close_toolset(disposal.shape, disposal.loop)]
    /\ UNCHANGED <<max_connections, pools, connection_count, _toolsets_cache,
                   _creation_timestamps, now, next_id, held, obs, pool_lock,
                   cache_lock, call, plan, tracked>>

NextClose == CloseToolset

SpecClose == InitClose /\ [][NextClose]_vars

\* The calls _close_toolset made of the handle's methods.
Calls == {disposal.r.calls[i] : i \in 1..Len(disposal.r.calls)}
\* The handle's methods that are coroutine functions, and the plain ones.
Suspending(shape) ==
    {op \in {"close", "cleanup"} : shape[op] = "async"}
NonSuspending(shape) ==
    {op \in {"close", "cleanup"} : shape[op] = "sync"}

\* ------------- SpecSteps: the pool's handlers line by line, in threads

AlwaysAvailable(lock) == TRUE

\* with self.lock (lines 27, 59, 101): a threading.Lock is taken when free.
Available(lock) == lock = NoThread

\* What the handler under way returns in the serial order in which the
\* calls got the lock: the free lists and counts it leaves, what it
\* returns, that it raises.
NoEffect ==
    [pools |-> EmptyDict, count |-> EmptyDict, ret |-> NoHandle,
     raised |-> FALSE]

\* A handler of the pool called in a thread, and its locals. arg: the handle
\* passed; ok: MCPToolset(...) would construct; propagates: _close_toolset
\* would let an exception through; toolset: the local of that name; todo:
\* the keys cleanup_all has yet to walk; closing: the handles on which
\* _close_toolset is under way; expect: see NoEffect.
Step(op, key, arg) ==
    [op |-> op, pc |-> "lock", key |-> key, arg |-> arg, ok |-> TRUE,
     propagates |-> FALSE, toolset |-> NoHandle, raised |-> FALSE,
     todo |-> <<>>, closing |-> {}, expect |-> NoEffect]

\* Whether _close_toolset lets an exception through, over all shapes.
Propagations == {r.propagated : r \in UNION Contexts}
Disposal(p) == [Undisposed EXCEPT !.propagated = p]

\* The handler of c run alone on the state as it is.
Serial(c, ok, p) ==
    IF c.op = "get_toolset"
    THEN LET g == get_toolset(pools, connection_count, c.key, ok, next_id)
         IN [pools |-> g.pools, count |-> g.count, ret |-> g.ret,
             raised |-> g.raised]
    ELSE IF c.op = "return_toolset"
    THEN LET b == return_toolset(pools, connection_count, c.key, c.arg,
                                 Disposal(p))
         IN [pools |-> b.pools, count |-> b.count, ret |-> NoHandle,
             raised |-> b.raised]
    ELSE LET a == cleanup_all(pools, connection_count,
                              [h \in IdleHandles(pools) |-> Disposal(p)])
         IN [pools |-> a.pools, count |-> a.count, ret |-> NoHandle,
             raised |-> a.raised]

PoolOps == {"get_toolset", "return_toolset", "cleanup_all"}
At(t, op, pc) == call[t].op = op /\ call[t].pc = pc
FirstStep(op) ==
    IF op = "get_toolset" THEN "register"
    ELSE IF op = "return_toolset" THEN "find" ELSE "items"

\* What a step of the pool never touches.
NotPool == <<apart, _toolsets_cache, _creation_timestamps, now, obs,
             cache_lock>>

\* Thread t calls get_toolset(k) and reaches line 27.
StepGet(t, k) ==
    /\ Returned(t)
    /\ next_id + Cardinality({u \in Threads : InGetToolset(u)}) <= MaxHandles
    /\ call' = [call EXCEPT ![t] = Step("get_toolset", k, NoHandle)]
    /\ UNCHANGED <<NotPool, pools, connection_count, next_id, held, pool_lock>>

\* Thread t calls return_toolset(k, h) with a handle it took, and reaches
\* line 59.
StepReturn(t, k, h) ==
    /\ Returned(t)
    /\ <<k, h>> \in held
    /\ held' = held \ {<<k, h>>}
    /\ call' = [call EXCEPT ![t] = Step("return_toolset", k, h)]
    /\ UNCHANGED <<NotPool, pools, connection_count, next_id, pool_lock>>

\* Thread t calls cleanup_all and reaches line 101.
StepCleanupAll(t) ==
    /\ Returned(t)
    /\ call' = [call EXCEPT ![t] = Step("cleanup_all", "", NoHandle)]
    /\ UNCHANGED <<NotPool, pools, connection_count, next_id, held, pool_lock>>

\* with self.lock: thread t gets the lock. (What the environment will do
\* to this call is drawn here: ok, p.)
StepLock(t, ok, p) ==
    /\ call[t].pc = "lock" /\ call[t].op \in PoolOps
    /\ Available(pool_lock)
    /\ pool_lock' = t
    /\ LET c == call[t]
           reuses == /\ c.key \in DOMAIN pools
                     /\ pools[c.key] # <<>>
       IN /\ (c.op # "get_toolset" \/ reuses) => ok
          /\ call' = [call EXCEPT ![t] =
                        [c EXCEPT !.pc = FirstStep(c.op), !.ok = ok,
                                  !.propagates = p,
                                  !.expect = Serial(c, ok, p)]]
    /\ UNCHANGED <<NotPool, pools, connection_count, next_id, held>>

\* An exception leaves the handler: KeyError of a key no longer there.
Raise(t) == [call EXCEPT ![t].pc = "leave", ![t].raised = TRUE]
Goto(t, pc) == [call EXCEPT ![t].pc = pc]

\* Lines 28-30 of get_toolset.
GetRegister(t) ==
    /\ At(t, "get_toolset", "register")
    /\ LET k == call[t].key
       IN IF k \in DOMAIN pools
          THEN UNCHANGED <<pools, connection_count>>
          ELSE /\ pools' = Put(pools, k, <<>>)
               /\ connection_count' = Put(connection_count, k, 0)
    /\ call' = Goto(t, "reuse")
    /\ UNCHANGED <<NotPool, next_id, held, pool_lock>>

\* Lines 32-38 of get_toolset.
GetReuse(t) ==
    /\ At(t, "get_toolset", "reuse")
    /\ LET k == call[t].key
       IN IF k \notin DOMAIN pools
          THEN call' = Raise(t) /\ UNCHANGED pools
          ELSE IF pools[k] # <<>>
          THEN /\ pools' = Put(pools, k, Popped(pools[k]).rest)
               /\ call' = [call EXCEPT ![t].pc = "leave",
                                       ![t].toolset = Popped(pools[k]).ret]
          ELSE call' = Goto(t, "limit") /\ UNCHANGED pools
    /\ UNCHANGED <<NotPool, connection_count, next_id, held, pool_lock>>

\* Line 41 of get_toolset.
GetLimit(t) ==
    /\ At(t, "get_toolset", "limit")
    /\ LET k == call[t].key
       IN call' = IF k \notin DOMAIN connection_count THEN Raise(t)
                  ELSE IF UnderLimit(connection_count[k])
                  THEN Goto(t, "construct")
                  ELSE Goto(t, "temporary")
    /\ UNCHANGED <<NotPool, pools, connection_count, next_id, held, pool_lock>>

\* Lines 43-44 and 54-55 of get_toolset: MCPToolset(...) constructs a
\* handle, or raises.
GetConstruct(t) ==
    /\ call[t].op = "get_toolset"
    /\ call[t].pc \in {"construct", "temporary"}
    /\ IF call[t].ok
       THEN /\ call' = [call EXCEPT
                          ![t].pc = IF call[t].pc = "construct"
                                    THEN "count" ELSE "leave",
                          ![t].toolset = next_id]
            /\ next_id' = next_id + 1
       ELSE call' = Raise(t) /\ UNCHANGED next_id
    /\ UNCHANGED <<NotPool, pools, connection_count, held, pool_lock>>

\* Line 45 of get_toolset.
GetCount(t) ==
    /\ At(t, "get_toolset", "count")
    /\ LET k == call[t].key
       IN IF k \notin DOMAIN connection_count
          THEN call' = Raise(t) /\ UNCHANGED <<connection_count, tracked>>
          ELSE /\ connection_count' =
                     Put(connection_count, k, connection_count[k] + 1)
               /\ tracked' = tracked \cup {call[t].toolset}
               /\ call' = Goto(t, "leave")
    /\ UNCHANGED <<beside, _toolsets_cache, _creation_timestamps, now, obs,
                   cache_lock, pools, next_id, held, pool_lock>>

\* Lines 60-62 of return_toolset.
ReturnFind(t) ==
    /\ At(t, "return_toolset", "find")
    /\ LET k == call[t].key
       IN call' = IF k \notin DOMAIN pools THEN Goto(t, "leave")
                  ELSE IF HasRoom(pools[k]) THEN Goto(t, "append")
                  ELSE [call EXCEPT ![t].pc = "close",
                                    ![t].closing = {call[t].arg}]
    /\ UNCHANGED <<NotPool, pools, connection_count, next_id, held, pool_lock>>

\* Lines 63-64 of return_toolset.
ReturnAppend(t) ==
    /\ At(t, "return_toolset", "append")
    /\ LET k == call[t].key
       IN IF k \notin DOMAIN pools
          THEN call' = Goto(t, "leave") /\ UNCHANGED pools
          ELSE /\ pools' = Put(pools, k, Append(pools[k], call[t].arg))
               /\ call' = Goto(t, "leave")
    /\ UNCHANGED <<NotPool, connection_count, next_id, held, pool_lock>>

\* Line 67 of return_toolset: _close_toolset runs and returns, or raises.
ReturnClose(t) ==
    /\ At(t, "return_toolset", "close")
    /\ call' = IF call[t].propagates THEN Raise(t)
               ELSE [call EXCEPT ![t].pc = "decrement", ![t].closing = {}]
    /\ UNCHANGED <<NotPool, pools, connection_count, next_id, held, pool_lock>>

\* Line 68 of return_toolset.
ReturnDecrement(t) ==
    /\ At(t, "return_toolset", "decrement")
    /\ LET k == call[t].key
       IN IF k \notin DOMAIN connection_count
          THEN call' = Raise(t) /\ UNCHANGED connection_count
          ELSE /\ connection_count' =
                     Put(connection_count, k, connection_count[k] - 1)
               /\ call' = Goto(t, "leave")
    /\ UNCHANGED <<NotPool, pools, next_id, held, pool_lock>>

\* Line 102 of cleanup_all: the walk over self.pools.items() begins, or
\* goes on to the next key; after the last key comes line 108.
Walk(t, todo) ==
    IF todo = <<>>
    THEN [call EXCEPT ![t].pc = "clear", ![t].todo = <<>>,
                      ![t].closing = {}]
    ELSE IF Head(todo) \notin DOMAIN pools
    THEN [call EXCEPT ![t].pc = "leave", ![t].raised = TRUE,
                      ![t].closing = {}]
    ELSE LET pool == pools[Head(todo)]
         IN [call EXCEPT ![t].pc = "close_all", ![t].todo = todo,
                         ![t].closing = {pool[i] : i \in 1..Len(pool)}]

CleanupItems(t) ==
    /\ At(t, "cleanup_all", "items")
    /\ call' = Walk(t, KeySeq(DOMAIN pools))
    /\ UNCHANGED <<NotPool, pools, connection_count, next_id, held, pool_lock>>

\* Lines 104-105 of cleanup_all: _close_toolset on every handle of the
\* key's free list.
CleanupClose(t) ==
    /\ At(t, "cleanup_all", "close_all")
    /\ call' = IF call[t].propagates /\ call[t].closing # {}
               THEN Raise(t)
               ELSE Goto(t, "clear_pool")
    /\ UNCHANGED <<NotPool, pools, connection_count, next_id, held, pool_lock>>

\* Lines 106-107 of cleanup_all, and on to the next key.
CleanupClearPool(t) ==
    /\ At(t, "cleanup_all", "clear_pool")
    /\ LET k == Head(call[t].todo)
       IN /\ pools' = IF k \in DOMAIN pools THEN Put(pools, k, <<>>)
                      ELSE pools
          /\ connection_count' = Reset(connection_count, k)
          /\ call' = IF DOMAIN pools' = DOMAIN pools
                     THEN Walk(t, Tail(call[t].todo))
                     ELSE Raise(t)
    /\ UNCHANGED <<NotPool, next_id, held, pool_lock>>

\* Line 108 of cleanup_all.
CleanupClear(t) ==
    /\ At(t, "cleanup_all", "clear")
    /\ pools' = EmptyDict
    /\ call' = Goto(t, "leave")
    /\ UNCHANGED <<NotPool, connection_count, next_id, held, pool_lock>>

\* The with statement is left, by return or by an exception: the lock is
\* released; the caller of get_toolset has its handle.
StepLeave(t) ==
    /\ call[t].pc = "leave" /\ call[t].op \in PoolOps
    /\ pool_lock' = Release(pool_lock, t)
    /\ held' = IF call[t].op = "get_toolset" /\ call[t].toolset # NoHandle
               THEN held \cup {<<call[t].key, call[t].toolset>>}
               ELSE held
    /\ call' = [call EXCEPT ![t] = [Idle EXCEPT !.op = call[t].op,
                                                !.pc = "done",
                                                !.ret = call[t].toolset,
                                                !.raised = call[t].raised]]
    /\ UNCHANGED <<NotPool, pools, connection_count, next_id>>

NextSteps ==
    \/ \E t \in Threads, k \in ServiceKeys : StepGet(t, k)
    \/ \E t \in Threads, k \in ServiceKeys, h \in Handles :
          StepReturn(t, k, h)
    \/ \E t \in Threads : StepCleanupAll(t)
    \/ \E t \in Threads, ok \in BOOLEAN, p \in Propagations :
          StepLock(t, ok, p)
    \/ \E t \in Threads : GetRegister(t)
    \/ \E t \in Threads : GetReuse(t)
    \/ \E t \in Threads : GetLimit(t)
    \/ \E t \in Threads : GetConstruct(t)
    \/ \E t \in Threads : GetCount(t)
    \/ \E t \in Threads : ReturnFind(t)
    \/ \E t \in Threads : ReturnAppend(t)
    \/ \E t \in Threads : ReturnClose(t)
    \/ \E t \in Threads : ReturnDecrement(t)
    \/ \E t \in Threads : CleanupItems(t)
    \/ \E t \in Threads : CleanupClose(t)
    \/ \E t \in Threads : CleanupClearPool(t)
    \/ \E t \in Threads : CleanupClear(t)
    \/ \E t \in Threads : StepLeave(t)

SpecSteps == Init /\ [][NextSteps]_vars

\* Thread t is at a call of _close_toolset (lines 67, 105).
Disposing(t) ==
    /\ call[t].pc \in {"close", "close_all"}
    /\ call[t].closing # {}

\* ------- SpecStale: the cache alone, its handles of one shape, as the
\* ------- TTL passes again and again

\* The TTLs that pass, at most.
MaxExpiries == 3

\* Every handle MCPToolset constructs is of the shape drawn here.
InitStale ==
    /\ PoolAndCache(MaxConnections) /\ plan = NoPlan
    /\ disposal \in [pc : {"shaped"}, shape : Shapes, r : {Finished(<<>>)}]

\* _get_or_create_toolset(k): as GetOrCreateToolset, and what lines 136-140
\* do to the handle evicted is what they do to a handle of that shape.
GetOrCreateShaped(k, ok) ==
    \E g \in {get_or_create_toolset(_toolsets_cache, _creation_timestamps,
                                    pools, connection_count, k, now, ok,
                                    next_id)} :
    LET created == g.how \in {"pooled", "temporary"}
        old == IF g.expired = NoHandle THEN {} ELSE {g.expired}
        r == IF old = {} THEN Finished(<<>>)
             ELSE expired_cleanup(disposal.shape)
        exp == IF old = {} THEN Unexpired
               ELSE ExpiryOutcome(disposal.shape, r)
    IN /\ g.how \in {"cached", "reused"} => ok
       /\ created => next_id <= MaxHandles
       /\ _toolsets_cache' = g.state.cache
       /\ _creation_timestamps' = g.state.stamps
       /\ pools' = g.state.pools
       /\ connection_count' = g.state.count
       /\ next_id' = IF created THEN next_id + 1 ELSE next_id
       /\ obs' = [NoObs EXCEPT
                    !.op = "_get_or_create_toolset", !.key = k,
                    !.arg = g.expired, !.ret = g.ret, !.raised = g.raised,
                    !.how = g.how, !.acquires = g.acquires,
                    !.attempts = g.attempts, !.passed = old,
                    !.closed = {x \in old : exp.invoked},
                    !.failed = {x \in old : exp.failed},
                    !.silent = {x \in old : exp.silent}]
       /\ disposal' = [disposal EXCEPT
                         !.pc = IF old = {} THEN "shaped" ELSE "expired",
                         !.r = r]
       /\ tracked' = Counted(g)
       /\ UNCHANGED <<max_connections, plan, now, held, conc>>

\* The TTL passes once more.
TtlPasses ==
    /\ now < MaxExpiries * _cache_ttl
    /\ now' = now + _cache_ttl
    /\ obs' = [NoObs EXCEPT !.op = "tick"]
    /\ disposal' = [disposal EXCEPT !.pc = "shaped", !.r = Finished(<<>>)]
    /\ UNCHANGED <<max_connections, plan, pools, connection_count,
                   _toolsets_cache, _creation_timestamps, next_id, held,
                   conc, tracked>>

NextStale ==
    \/ \E k \in ServiceKeys, ok \in BOOLEAN : GetOrCreateShaped(k, ok)
    \/ TtlPasses

SpecStale == InitStale /\ [][NextStale]_vars

\* ------ SpecLocks: threads calling the cache and the pool, both locks

WaitsForCacheLock(t) == cache_lock \in {NoThread, t}

\* Lines 25-108: no handler of the pool takes AgentFactory._lock, and
\* _close_toolset takes no lock at all.
TakesNoCacheLock(t) == TRUE

\* Thread t calls cleanup_all and reaches line 101.
CallCleanupAll(t) ==
    /\ Returned(t)
    /\ call' = [call EXCEPT ![t] = [Idle EXCEPT !.op = "cleanup_all",
                                                !.pc = "lock"]]
    /\ UNCHANGED <<apart, pools, connection_count, _toolsets_cache,
                   _creation_timestamps, now, next_id, held, obs, pool_lock,
                   cache_lock>>

\* Lines 102-108 under the lock, and the release of the lock on the way out.
CleanupAllBody(t, results) ==
    /\ call[t].pc = "pool" /\ call[t].op = "cleanup_all"
    /\ TakesNoCacheLock(t)
    /\ \E closing \in [IdleHandles(pools) -> results] :
       \E a \in {cleanup_all(pools, connection_count, closing)} :
          /\ pools' = a.pools
          /\ connection_count' = a.count
          /\ call' = [call EXCEPT ![t].pc = "done", ![t].raised = a.raised]
          /\ obs' = [NoObs EXCEPT !.op = "cleanup_all", !.raised = a.raised]
    /\ pool_lock' = Release(pool_lock, t)
    /\ UNCHANGED <<apart, _toolsets_cache, _creation_timestamps, now,
                   next_id, held, cache_lock>>

\* The handles constructed for the threads of SpecLocks, at most.
LockHandles == 2

\* A call that may construct a handle is started only while a handle is
\* left for it.
HandleLeft ==
    next_id + Cardinality({u \in Threads : InGetToolset(u) \/ InLookup(u)})
       <= LockHandles

\* The locks are the same for every key: the threads here use one.
LockKeys == {"weather"}

NextLocks ==
    \/ \E t \in Threads, k \in LockKeys :
          HandleLeft /\ CallGetToolset(t, k)
    \/ \E t \in Threads, k \in LockKeys, h \in Handles :
          CallReturnToolset(t, k, h)
    \/ \E t \in Threads : CallCleanupAll(t)
    \/ \E t \in Threads, k \in LockKeys :
          HandleLeft /\ CallGetOrCreate(t, k)
    \/ \E t \in Threads : CallCleanupToolsets(t)
    \/ \E t \in Threads : LockPool(t)
    \/ \E t \in Threads : EnterCache(t)
    \/ \E t \in Threads : CheckCache(t)
    \/ \E t \in Threads : EnterPool(t)
    \/ \E t \in Threads, ok \in BOOLEAN : GetToolsetBody(t, ok)
    \/ \E t \in Threads, results \in Contexts : ReturnToolsetBody(t, results)
    \/ \E t \in Threads, results \in Contexts : CleanupAllBody(t, results)
    \/ \E t \in Threads, ok \in BOOLEAN : StoreToolset(t, ok)
    \/ \E t \in Threads, results \in Contexts : Teardown(t, results)

\* Thread t gets a lock it is at; thread t runs the body of its with
\* statement. (A thread is in one place: at most one disjunct is enabled.)
TakeLock(t) ==
    \/ LockPool(t)
    \/ EnterCache(t)
    \/ EnterPool(t)
    \/ \E results \in Contexts : Teardown(t, results)
RunBody(t) ==
    \/ CheckCache(t)
    \/ \E ok \in BOOLEAN : GetToolsetBody(t, ok)
    \/ \E results \in Contexts : ReturnToolsetBody(t, results)
    \/ \E results \in Contexts : CleanupAllBody(t, results)
    \/ \E ok \in BOOLEAN : StoreToolset(t, ok)

\* Fair scheduling, as in FairPool: a thread inside a with statement goes
\* on; a thread at a with statement gets the lock if it is free again and
\* again.
FairLocks ==
    \A t \in Threads : SF_vars(TakeLock(t)) /\ WF_vars(RunBody(t))

SpecLocks == Init /\ [][NextLocks]_vars /\ FairLocks

CacheOps == {"_get_or_create_toolset", "cleanup_toolsets"}
\* Thread t is at a with statement (lines 27, 59, 101, 124, 253), or at a
\* call of the pool made with the cache's lock (lines 144, 257, 265).
AtLock(t) == call[t].pc \in {"lock", "evicted", "teardown"}
\* The locks are used in order: a thread with the pool's lock is in a
\* handler of the pool, or came through the cache with the cache's lock;
\* a thread asking for a lock does not hold it; a thread asking for the
\* cache's lock holds none.
LockOrder ==
    \A t \in Threads :
       /\ pool_lock = t =>
             /\ call[t].pc = "pool"
             /\ call[t].op \in CacheOps <=> cache_lock = t
       /\ call[t].pc = "lock" => pool_lock # t /\ cache_lock # t
       /\ call[t].pc \in {"evicted", "teardown"} =>
             pool_lock # t /\ cache_lock = t

\* ---------- SpecSystem: one TravelPlanningSystem over the cache and pool

\* The requests made of the system, at most.
MaxRequests == 3

\* _create_agents (system.py lines 88-101): the create_*_agent methods
\* call _get_or_create_toolset for their services (agents.py lines 156-224)
\* and keep what it returns in the agent's tools. counted: the handles
\* line 45 counted.
RECURSIVE create_agents(_, _, _, _, _)
create_agents(keys, st, id, tools, counted) ==
    IF keys = <<>>
    THEN [state |-> st, next_id |-> id, tools |-> tools, counted |-> counted]
    ELSE LET k == Head(keys)
             g == get_or_create_toolset(st.cache, st.stamps, st.pools,
                                        st.count, k, now, TRUE, id)
             created == g.how \in {"pooled", "temporary"}
         IN create_agents(Tail(keys), g.state,
                          IF created THEN id + 1 ELSE id,
                          Put(tools, k, g.ret),
                          IF g.how = "pooled" THEN counted \cup {g.ret}
                          ELSE counted)

\* The services of the four agents, then those of the coordinator.
AgentServices == KeyOrder \o KeyOrder

\* A system: tools: the handle of each service in its agents' tools;
\* requests: the calls of plan_trip_coordinated run on it; released,
\* disposed: its handles passed to return_toolset, to _close_toolset;
\* stale: the handles a request ran against after they were released or
\* disposed of; last: the handler called last.
NewSystem(tools) ==
    [pc |-> "system", tools |-> tools, requests |-> 0, released |-> {},
     disposed |-> {}, stale |-> {}, last |-> "__init__"]

ToolsOf(p) == {p.tools[k] : k \in DOMAIN p.tools}

NotSystem == <<max_connections, disposal, now, held, obs, conc>>

\* TravelPlanningSystem() (system.py lines 19-47); every MCPToolset(...)
\* constructs.
CreateSystem ==
    /\ plan = NoPlan
    /\ next_id + Len(KeyOrder) - 1 <= MaxHandles
    /\ \E a \in {create_agents(AgentServices,
                               [cache |-> _toolsets_cache,
                                stamps |-> _creation_timestamps,
                                pools |-> pools, count |-> connection_count],
                               next_id, EmptyDict, {})} :
          /\ _toolsets_cache' = a.state.cache
          /\ _creation_timestamps' = a.state.stamps
          /\ pools' = a.state.pools
          /\ connection_count' = a.state.count
          /\ next_id' = a.next_id
          /\ tracked' = tracked \cup a.counted
          /\ plan' = NewSystem(a.tools)
    /\ UNCHANGED NotSystem

\* A request: the runner drives the agents, which use their tools
\* (system.py lines 129-133).
Request(p, how) ==
    [p EXCEPT !.requests = @ + 1, !.last = how,
              !.stale = @ \cup (ToolsOf(p) \cap (p.released \cup p.disposed))]

\* await system.plan_trip_coordinated(query), or the task that
\* plan_trip_coordinated_sync returns inside a running loop (line 191).
PlanTripCoordinated ==
    /\ plan.pc = "system" /\ plan.requests < MaxRequests
    /\ plan' = Request(plan, "plan_trip_coordinated")
    /\ UNCHANGED <<NotSystem, pools, connection_count, _toolsets_cache,
                   _creation_timestamps, next_id, tracked>>

\* AgentFactory.cleanup_toolsets() called from the system, inside an event
\* loop (system.py line 58).
Cleaned(p, closing) ==
    LET c == cleanup_toolsets(_toolsets_cache, _creation_timestamps, pools,
                              connection_count, closing)
    IN [state |-> c.state,
        plan |-> [p EXCEPT
                    !.released = @ \cup (ToolsOf(p)
                                    \cap CachedHandles(_toolsets_cache)),
                    !.disposed = @ \cup (ToolsOf(p) \cap c.closed)]]

\* system.plan_trip_coordinated_sync(query) with no loop running (system.py
\* lines 192-234): async with self around the request, so __aexit__ runs
\* after it.
PlanTripCoordinatedSync ==
    /\ plan.pc = "system" /\ plan.requests < MaxRequests
    /\ LET handles == IdleHandles(pools) \cup CachedHandles(_toolsets_cache)
       IN \E closing \in [handles -> CloseResultsInLoop] :
          \E c \in {Cleaned(Request(plan, "plan_trip_coordinated_sync"),
                            closing)} :
             /\ _toolsets_cache' = c.state.cache
             /\ _creation_timestamps' = c.state.stamps
             /\ pools' = c.state.pools
             /\ connection_count' = c.state.count
             /\ plan' = c.plan
    /\ UNCHANGED <<NotSystem, next_id, tracked>>

\* async with system: ... is left (system.py lines 54-58).
Aexit ==
    /\ plan.pc = "system"
    /\ LET handles == IdleHandles(pools) \cup CachedHandles(_toolsets_cache)
       IN \E closing \in [handles -> CloseResultsInLoop] :
          \E c \in {Cleaned([plan EXCEPT !.last = "__aexit__"], closing)} :
             /\ _toolsets_cache' = c.state.cache
             /\ _creation_timestamps' = c.state.stamps
             /\ pools' = c.state.pools
             /\ connection_count' = c.state.count
             /\ plan' = c.plan
    /\ UNCHANGED <<NotSystem, next_id, tracked>>

\* The system's handlers; the create_*_agent calls of other instances
\* (tests and the web application construct their own); time.
NextSystem ==
    \/ CreateSystem
    \/ PlanTripCoordinated
    \/ PlanTripCoordinatedSync
    \/ Aexit
    \/ \E k \in ServiceKeys, ok \in BOOLEAN : GetOrCreateToolset(k, ok)
    \/ Tick

SpecSystem == Init /\ [][NextSystem]_vars

\* ----- SpecOwner: the cache called through its own interface only

NextOwner ==
    \/ \E k \in ServiceKeys, ok \in BOOLEAN : GetOrCreateToolset(k, ok)
    \/ \E results \in Contexts : CleanupToolsets(results)
    \/ Tick

SpecOwner == Init /\ [][NextOwner]_vars

\* ---------------------------------------------------------------- claims

Known(k) == k \in DOMAIN pools
AllIdleEmpty(p) == \A k \in DOMAIN p : p[k] = <<>>
AllCountsZero(c) == \A k \in DOMAIN c : c[k] = 0

\* C1: the count of a key never exceeds max_connections, and a get_toolset
\* that finds the free list empty and the count at max_connections leaves
\* the count as it is and, when it returns, returns a newly constructed
\* handle as a temporary one.
C1_Ceiling ==
    [][/\ \A k \in DOMAIN connection_count' :
             connection_count'[k] <= max_connections
       /\ \A k \in ServiceKeys :
             ( /\ obs'.op = "get_toolset" /\ obs'.key = k
               /\ Known(k) /\ pools[k] = <<>>
               /\ connection_count[k] = max_connections )
             => /\ connection_count'[k] = connection_count[k]
                /\ pools'[k] = <<>>
                /\ ~obs'.raised =>
                      /\ obs'.how = "temporary"
                      /\ obs'.ret = next_id /\ next_id' = next_id + 1
                      /\ obs'.ret \notin IdleHandles(pools)
                      /\ \A x \in held : x[2] # obs'.ret]_vars

\* C1 witness: a temporary handle was returned with the count at the ceiling.
C1_Witness ==
    /\ obs.op = "get_toolset" /\ obs.how = "temporary"
    /\ connection_count[obs.key] = max_connections

\* C2: no free list is longer than max_connections / 2, and a
\* return_toolset that finds the free list at that length leaves the list
\* as it is, calls the disposal of the handle and lowers the count by one.
C2_IdleBound ==
    [][/\ \A k \in DOMAIN pools' : Len(pools'[k]) <= max_connections \div 2
       /\ \A k \in ServiceKeys :
             ( /\ obs'.op = "return_toolset" /\ obs'.key = k
               /\ Known(k) /\ Len(pools[k]) = max_connections \div 2 )
             => /\ pools'[k] = pools[k]
                /\ obs'.closed = {obs'.arg}
                /\ connection_count'[k] = connection_count[k] - 1]_vars

\* C2 witness: a handle was returned to a full free list and disposed of.
C2_Witness ==
    /\ obs.op = "return_toolset" /\ obs.how = "closed"
    /\ obs.found = max_connections \div 2
    /\ obs.closed = {obs.arg}

Age(k) == now - _creation_timestamps[k]
Cached(k) == k \in DOMAIN _toolsets_cache

\* C4: a lookup of a cached key younger than the TTL returns the cached
\* handle, calls the pool not at all and leaves the timestamp; a lookup of a
\* cached key older than the TTL calls get_toolset exactly once and, when it
\* returns, returns another handle than the cached one, stored as of now.
C4_TtlExpiry ==
    [][\A k \in ServiceKeys :
          (obs'.op = "_get_or_create_toolset" /\ obs'.key = k /\ Cached(k))
          => /\ Age(k) < _cache_ttl =>
                  /\ ~obs'.raised /\ obs'.ret = _toolsets_cache[k]
                  /\ obs'.acquires = 0
                  /\ _toolsets_cache' = _toolsets_cache
                  /\ _creation_timestamps' = _creation_timestamps
                  /\ pools' = pools /\ connection_count' = connection_count
                  /\ next_id' = next_id
             /\ Age(k) > _cache_ttl =>
                  /\ obs'.acquires = 1
                  /\ obs'.arg = _toolsets_cache[k]
                  /\ ~obs'.raised =>
                        /\ obs'.ret # _toolsets_cache[k]
                        /\ _toolsets_cache'[k] = obs'.ret
                        /\ _creation_timestamps'[k] = now]_vars

\* C4 witness: an entry older than the TTL was replaced by another handle.
C4_Witness ==
    /\ obs.op = "_get_or_create_toolset" /\ ~obs.raised
    /\ obs.arg # NoHandle /\ obs.ret # obs.arg
    /\ now = _cache_ttl + 1 /\ _creation_timestamps[obs.key] = now

\* C5: a lookup never returns the handle that was cached when its age is
\* the TTL or more; what it returns was cached and younger than the TTL, or
\* comes from the one get_toolset of this call.
C5_NoStaleHit ==
    [][\A k \in ServiceKeys :
          ( /\ obs'.op = "_get_or_create_toolset" /\ obs'.key = k
            /\ ~obs'.raised )
          => \/ /\ Cached(k) /\ Age(k) < _cache_ttl
                /\ obs'.ret = _toolsets_cache[k] /\ obs'.acquires = 0
             \/ /\ Cached(k) => obs'.ret # _toolsets_cache[k]
                /\ obs'.acquires = 1
                /\ obs'.how \in {"reused", "pooled", "temporary"}
                /\ obs'.how = "reused" =>
                      obs'.ret \in IdleHandles(pools)
                /\ obs'.how # "reused" => obs'.ret = next_id]_vars

\* C5 witness: an entry whose age was exactly the TTL was evicted.
C5_Witness ==
    /\ obs.op = "_get_or_create_toolset" /\ ~obs.raised
    /\ obs.arg # NoHandle /\ obs.ret # obs.arg
    /\ now = _cache_ttl /\ _creation_timestamps[obs.key] = now

\* Thread t's lookup has returned a handle.
Completed(t) ==
    /\ call[t].op = "_get_or_create_toolset" /\ call[t].pc = "done"
    /\ ~call[t].raised

\* Two lookups of one key that overlap, that no cleanup_toolsets ran
\* across, and that read the time less than a TTL apart.
SameRefresh(t, u) ==
    /\ t # u /\ Completed(t) /\ Completed(u)
    /\ u \in call[t].peers /\ t \in call[u].peers
    /\ ~call[t].disturbed /\ ~call[u].disturbed
    /\ call[t].current_time - call[u].current_time < _cache_ttl
    /\ call[u].current_time - call[t].current_time < _cache_ttl

\* C6: two threads' overlapping lookups of one key return the same handle,
\* and call the pool's get_toolset at most once between them; exactly once
\* when the key's entry was missing or expired as each was called.
C6_AtomicRefresh ==
    \A t, u \in Threads :
       SameRefresh(t, u)
       => /\ call[t].ret = call[u].ret
          /\ call[t].acquires + call[u].acquires <= 1
          /\ (call[t].stale /\ call[u].stale)
                => call[t].acquires + call[u].acquires = 1

\* C6 witness: two overlapping lookups of an expired key, one of which
\* refreshed it and the other of which returned the same handle.
C6_Witness ==
    \E t, u \in Threads :
       /\ SameRefresh(t, u)
       /\ call[t].stale /\ call[u].stale
       /\ call[t].acquires = 1 /\ call[u].acquires = 0
       /\ call[t].ret = call[u].ret
       /\ call[t].current_time >= _cache_ttl
       /\ next_id > 2

\* C7: after cleanup_toolsets the cache and the timestamps are empty, every
\* free list is empty and every count is 0, whatever the disposals did.
C7_TeardownComplete ==
    obs.op = "cleanup_toolsets"
    => /\ ~obs.raised
       /\ _toolsets_cache = EmptyDict /\ _creation_timestamps = EmptyDict
       /\ DOMAIN _toolsets_cache = {} /\ DOMAIN _creation_timestamps = {}
       /\ AllIdleEmpty(pools) /\ IdleHandles(pools) = {}
       /\ AllCountsZero(connection_count)

\* C7 witness: a teardown in which one disposal raised and another did not.
C7_Witness ==
    /\ obs.op = "cleanup_toolsets"
    /\ obs.failed # {} /\ obs.closed \ obs.failed # {}
    /\ DOMAIN connection_count = ServiceKeys

Disposers ==
    {"return_toolset", "cleanup_all", "cleanup_toolsets",
     "_get_or_create_toolset"}

\* C8: release, closeAll, invalidateAll and the expiry branch of getOrCreate
\* return normally, hold no lock afterwards, and have recorded a warning for
\* every handle they had to dispose of whose every disposal operation
\* raises.
C8_DisposalNeverPropagates ==
    obs.op \in Disposers
    => /\ obs.op # "_get_or_create_toolset" => ~obs.raised
       /\ pool_lock = NoThread /\ cache_lock = NoThread
       /\ obs.silent = {}

\* C8 witness: the expiry branch evicted a handle whose every disposal
\* operation raises, and returned a new one having recorded no warning.
C8_Witness ==
    /\ obs.op = "_get_or_create_toolset" /\ obs.arg # NoHandle
    /\ obs.silent = {obs.arg} /\ ~obs.raised /\ obs.ret # obs.arg

\* C9: when a disposal raises in return_toolset or cleanup_all, the disposal
\* of every idle handle of every key is still called, and the pool is left
\* as the same call leaves it when no disposal raises.
C9_NoPartialTeardown ==
    [][/\ obs'.op = "cleanup_all" =>
             /\ obs'.closed = IdleHandles(pools)
             /\ ~obs'.raised
             /\ \E a \in {cleanup_all(pools, connection_count,
                                      [h \in IdleHandles(pools) |->
                                          Undisposed])} :
                   pools' = a.pools /\ connection_count' = a.count
       /\ obs'.op = "return_toolset" =>
             /\ ~obs'.raised
             /\ \E b \in {return_toolset(pools, connection_count, obs'.key,
                                         obs'.arg, Undisposed)} :
                   /\ pools' = b.pools /\ connection_count' = b.count
                   /\ obs'.closed = b.closed]_vars

\* C9 witness: a cleanup_all in which the disposal of one idle handle raised
\* and that of another was still called.
C9_Witness ==
    /\ obs.op = "cleanup_all"
    /\ obs.failed # {} /\ obs.closed \ obs.failed # {}
    /\ pools = EmptyDict

\* C10: a cleanup_all called right after a cleanup_all, or on a pool never
\* used, disposes of no handle, does not raise, and leaves every free list
\* empty and every count 0.
C10_CloseAllIdempotent ==
    [][(obs'.op = "cleanup_all" /\ obs.op \in {"cleanup_all", "init"})
       => /\ obs'.closed = {} /\ obs'.passed = {} /\ ~obs'.raised
          /\ AllIdleEmpty(pools') /\ AllCountsZero(connection_count')]_vars

\* C10 witness: a cleanup_all right after a cleanup_all, on a pool that had
\* been used.
C10_Witness ==
    /\ obs.op = "cleanup_all" /\ obs.again
    /\ obs.closed = {} /\ next_id > 1
    /\ DOMAIN connection_count # {}

\* C11: under fair scheduling every get_toolset that was called returns (a
\* handle or the creation's exception), whatever is checked out and whether
\* or not anybody ever calls return_toolset.
C11_AcquireNeverWaits ==
    \A t \in Threads : InGetToolset(t) ~> (call[t].op = "get_toolset"
                                           /\ call[t].pc = "done")

\* C11 witness: a get_toolset returned a handle while the count of its key
\* was at the ceiling, its free list empty and nothing being returned.
C11_Witness ==
    \E t \in Threads :
       /\ call[t].op = "get_toolset" /\ call[t].pc = "done"
       /\ ~call[t].raised /\ obs.op = "get_toolset" /\ obs.how = "temporary"
       /\ connection_count[call[t].key] = max_connections
       /\ pools[call[t].key] = <<>>
       /\ Cardinality(held) = max_connections + 1
       /\ \A u \in Threads : call[u].op # "return_toolset"

\* The count and the free list of a key; a key the pool has no entry for
\* yet has none checked out and none idle.
CountOf(c, k) == IF k \in DOMAIN c THEN c[k] ELSE 0
FreeListOf(p, k) == IF k \in DOMAIN p THEN p[k] ELSE <<>>

\* C12: a get_toolset in which the construction raises, below the ceiling
\* or at it, raises to its caller after one construction attempt, leaves
\* the pool's lock free, and leaves the count and the free list of the key
\* as they were.
C12_CreationFailureInPool ==
    [][(\E t \in Threads :
           /\ call[t].op = "get_toolset" /\ call[t].pc = "pool"
           /\ call'[t].pc = "done" /\ call'[t].raised)
       => /\ obs'.op = "get_toolset" /\ obs'.raised
          /\ obs'.attempts = 1 /\ obs'.ret = NoHandle
          /\ pool_lock' = NoThread
          /\ next_id' = next_id /\ held' = held
          /\ \A k \in ServiceKeys :
                /\ CountOf(connection_count', k) = CountOf(connection_count, k)
                /\ FreeListOf(pools', k) = FreeListOf(pools, k)]_vars

\* C12 witness: a construction failed at the ceiling, in the temporary
\* branch, after one below the ceiling had failed for the other key.
C12_Witness ==
    /\ obs.op = "get_toolset" /\ obs.raised
    /\ connection_count[obs.key] = max_connections
    /\ pools[obs.key] = <<>>
    /\ \E k \in DOMAIN connection_count : connection_count[k] = 0
    /\ pool_lock = NoThread

HeldHandles(H) == {x[2] : x \in H}
\* The handles the program still refers to.
Reachable(p, c, H) == IdleHandles(p) \cup CachedHandles(c) \cup HeldHandles(H)

\* C13: a _get_or_create_toolset in which the pool's get_toolset raises,
\* raises to its caller after one call of the pool and one construction
\* attempt and leaves no entry for the key; the handle it evicted is
\* referred to nowhere afterwards, and no step brings back a handle that is
\* referred to nowhere; the next lookup of the key calls the pool again.
C13_CreationFailureInCache ==
    [][/\ (obs'.op = "_get_or_create_toolset" /\ obs'.raised)
          => /\ obs'.acquires = 1 /\ obs'.attempts = 1
             /\ obs'.ret = NoHandle
             /\ obs'.key \notin DOMAIN _toolsets_cache'
             /\ obs'.arg \notin Reachable(pools', _toolsets_cache', held')
       /\ Reachable(pools', _toolsets_cache', held')
             \subseteq (Reachable(pools, _toolsets_cache, held)
                        \cup (next_id..(next_id' - 1)))
       /\ (obs'.op \in {"_get_or_create_toolset", "get_toolset"}
           /\ ~obs'.raised)
          => obs'.ret \in Reachable(pools', _toolsets_cache', held')
       /\ ( /\ obs.op = "_get_or_create_toolset" /\ obs.raised
            /\ obs'.op = "_get_or_create_toolset" /\ obs'.key = obs.key )
          => /\ obs'.acquires = 1
             /\ obs'.ret # NoHandle => obs'.ret # obs.arg
             /\ obs'.raised \/ obs'.ret # NoHandle]_vars

\* C13 witness: the pool's get_toolset raised in a lookup that had evicted
\* an expired entry.
C13_Witness ==
    /\ obs.op = "_get_or_create_toolset" /\ obs.raised
    /\ obs.arg # NoHandle /\ obs.acquires = 1
    /\ obs.key \notin DOMAIN _toolsets_cache
    /\ obs.key \in DOMAIN _creation_timestamps

\* C14: _close_toolset has been called, by the time cleanup_toolsets
\* returns, on every handle that was in the cache when it started (each of
\* them having been passed to return_toolset).
C14_InvalidateAllDisposes ==
    [][obs'.op = "cleanup_toolsets"
       => /\ CachedHandles(_toolsets_cache) \subseteq obs'.passed
          /\ CachedHandles(_toolsets_cache) \subseteq obs'.closed]_vars

\* C14 witness: cleanup_toolsets has returned, and a handle that was cached
\* when it started was passed to return_toolset but to no disposal.
C14_Witness ==
    /\ obs.op = "cleanup_toolsets" /\ ~obs.raised
    /\ obs.passed \ obs.closed # {}
    /\ _toolsets_cache = EmptyDict /\ pools = EmptyDict

\* C15: when return_toolset(key, h) has returned, h is the last element of
\* the key's free list or _close_toolset has been called on it.
C15_ReleaseNeverDrops ==
    obs.op = "return_toolset"
    => \/ /\ obs.key \in DOMAIN pools
          /\ pools[obs.key] # <<>>
          /\ pools[obs.key][Len(pools[obs.key])] = obs.arg
       \/ obs.arg \in obs.closed

\* C15 witness: return_toolset has returned for a key whose entry
\* cleanup_all had removed, and the handle is neither idle nor disposed of.
C15_Witness ==
    /\ obs.op = "return_toolset" /\ obs.how = "dropped" /\ ~obs.raised
    /\ obs.key \notin DOMAIN pools
    /\ obs.arg \notin IdleHandles(pools) /\ obs.closed = {}

\* C16: a get_toolset that finds handles idle returns the one appended
\* last and leaves the others in their order; a return_toolset that keeps
\* its handle appends it after the others; and neither changes the free
\* list of another key. (So handles released h1..hn and all kept come back
\* hn, .., h1.)
C16_LifoReuse ==
    [][\A k \in ServiceKeys :
          LET before == FreeListOf(pools, k)
              after == FreeListOf(pools', k)
          IN /\ ( /\ obs'.op = "get_toolset" /\ obs'.key = k
                  /\ before # <<>> )
                => /\ obs'.ret = before[Len(before)]
                   /\ after = SubSeq(before, 1, Len(before) - 1)
             /\ ( /\ obs'.op = "return_toolset" /\ obs'.key = k
                  /\ obs'.how = "kept" )
                => after = Append(before, obs'.arg)
             /\ ( /\ obs'.op \in {"get_toolset", "return_toolset"}
                  /\ obs'.key # k )
                => after = before]_vars

\* C16 witness: three handles of a key were released and kept, and a
\* get_toolset has returned the last of them, the other two staying idle.
C16_Witness ==
    /\ obs.op = "get_toolset" /\ obs.how = "reused"
    /\ Len(pools[obs.key]) = 2
    /\ next_id = 4

C18_DeferredDisposal ==
    ( /\ disposal.pc = "done" /\ disposal.loop
      /\ \/ disposal.shape.close = "async"
         \/ disposal.shape.close = "absent"
            /\ disposal.shape.cleanup = "async" )
    => /\ ~disposal.r.propagated
       /\ \E c \in Calls : c.how = "scheduled"

\* C18 witness: with an event loop running, _close_toolset has returned
\* from a handle whose only disposal method is a coroutine function
\* cleanup: cleanup() was called and its coroutine handed to nobody.
C18_Witness ==
    /\ disposal.pc = "done" /\ disposal.loop
    /\ disposal.shape.close = "absent" /\ disposal.shape.cleanup = "async"
    /\ disposal.r.calls = <<[op |-> "cleanup", how |-> "coroutine"]>>
    /\ ~disposal.r.warned /\ ~disposal.r.leak

\* C19: with no event loop running, every plain disposal method of the
\* handle has been called when _close_toolset returns, and none of its
\* coroutine functions has.
C19_ImmediateDisposal ==
    ( /\ disposal.pc = "done" /\ ~disposal.loop
      /\ NonSuspending(disposal.shape) # {} )
    => /\ ~disposal.r.propagated
       /\ \E c \in Calls : c.op \in NonSuspending(disposal.shape)
       /\ \A c \in Calls : c.op \notin Suspending(disposal.shape)

\* C19 witness: with no event loop running, _close_toolset has returned
\* from a handle with a plain close and a coroutine function cleanup,
\* having called cleanup and not close.
C19_Witness ==
    /\ disposal.pc = "done" /\ ~disposal.loop
    /\ disposal.shape.close = "sync" /\ disposal.shape.cleanup = "async"
    /\ disposal.r.calls = <<[op |-> "cleanup", how |-> "coroutine"]>>

\* C20: with no event loop running, on a handle whose disposal methods are
\* all coroutine functions, _close_toolset calls none of them, logs the
\* leak warning and returns.
C20_LeakWarning ==
    ( /\ disposal.pc = "done" /\ ~disposal.loop
      /\ Suspending(disposal.shape) # {}
      /\ NonSuspending(disposal.shape) = {} )
    => /\ ~disposal.r.propagated
       /\ disposal.r.calls = <<>>
       /\ disposal.r.leak

\* C20 witness: with no event loop running, _close_toolset has returned
\* from a handle whose only disposal method is a coroutine function
\* cleanup, having called it and logged nothing.
C20_Witness ==
    /\ disposal.pc = "done" /\ ~disposal.loop
    /\ disposal.shape.close = "absent" /\ disposal.shape.cleanup = "async"
    /\ disposal.r.calls # <<>> /\ ~disposal.r.leak /\ ~disposal.r.warned

\* C21: a thread at a call of _close_toolset holds neither the pool's lock
\* nor the cache's, and the handles it disposes of are in no free list.
C21_NoLockAcrossDisposal ==
    \A t \in Threads :
       IF Disposing(t)
       THEN /\ pool_lock # t
            /\ cache_lock # t
            /\ call[t].closing \cap IdleHandles(pools) = {}
       ELSE TRUE

\* C21 witness: a thread is at the call of _close_toolset of return_toolset
\* with the pool's lock, and another thread waits for that lock at line 27.
C21_Witness ==
    \E t, u \in Threads :
       /\ At(t, "return_toolset", "close") /\ pool_lock = t
       /\ At(u, "get_toolset", "lock")

\* C22: when a handler of the pool leaves its with statement, the free
\* lists, the counts and what it returns are those of the handler run alone
\* on the state in which it got the lock; a handle it hands out is held by
\* no caller and is the local of no other call under way.
C22_SerialOutcome ==
    \A t \in Threads :
       IF call[t].pc = "leave"
       THEN /\ pools = call[t].expect.pools
            /\ connection_count = call[t].expect.count
            /\ call[t].toolset = call[t].expect.ret
            /\ call[t].raised = call[t].expect.raised
            /\ call[t].toolset # NoHandle =>
                  /\ \A k \in ServiceKeys : <<k, call[t].toolset>> \notin held
                  /\ call[t].toolset \notin IdleHandles(pools)
                  /\ \A u \in Threads \ {t} :
                        InGetToolset(u) => call[u].toolset # call[t].toolset
       ELSE TRUE

\* C22 witness: two threads called get_toolset for one key at the same
\* time; both constructed a handle, the second is about to leave with the
\* count at 2.
C22_Witness ==
    \E t, u \in Threads :
       /\ t # u
       /\ At(t, "get_toolset", "leave") /\ At(u, "get_toolset", "done")
       /\ call[t].toolset = 2 /\ call[u].ret = 1
       /\ connection_count[call[t].key] = 2
       /\ <<call[t].key, 1>> \in held

\* C23: when _get_or_create_toolset has found an expired entry, the stale
\* handle is no longer cached, and if it has a close or a cleanup, one of
\* them was called on it.
C23_StaleHandleDisposed ==
    disposal.pc = "expired"
    => /\ obs.arg \notin CachedHandles(_toolsets_cache)
       /\ ( disposal.shape.close # "absent"
            \/ disposal.shape.cleanup # "absent" )
          => disposal.r.calls # <<>>

\* C23 witness: an expired entry whose handle has a close and no cleanup
\* has been replaced; nothing was called on the stale handle.
C23_Witness ==
    /\ disposal.pc = "expired"
    /\ disposal.shape.close = "sync" /\ disposal.shape.cleanup = "absent"
    /\ disposal.r.calls = <<>>
    /\ obs.arg # NoHandle /\ obs.ret # NoHandle /\ obs.ret # obs.arg
    /\ _toolsets_cache[obs.key] = obs.ret

\* C24: with _get_or_create_toolset the only handler called, as TTLs pass,
\* no count exceeds 1 and no call returns a temporary handle (whose
\* construction follows the capacity warning of line 52).
C24_ExpiryKeepsCapacity ==
    /\ \A k \in DOMAIN connection_count : connection_count[k] <= 1
    /\ obs.how # "temporary"

\* C24 witness: the entry of a key expired with the key's count at
\* max_connections; the call returned a temporary handle.
C24_Witness ==
    /\ obs.op = "_get_or_create_toolset" /\ obs.how = "temporary"
    /\ obs.passed # {}
    /\ connection_count[obs.key] = max_connections
    /\ pools[obs.key] = <<>>

\* The handles of key k that the pool counted when it constructed them and
\* that are in a caller's hands or in the key's free list.
LiveTracked(k) ==
    {h \in tracked :
        \/ <<k, h>> \in held
        \/ k \in DOMAIN pools /\ \E i \in 1..Len(pools[k]) : pools[k][i] = h}

\* C25: for every key, the handles the pool constructed as counted ones
\* and that are checked out or idle are at most max_connections.
C25_LiveTrackedCeiling ==
    \A k \in ServiceKeys : Cardinality(LiveTracked(k)) <= max_connections

\* C25 witness: after a cleanup_all, a caller holds more counted handles of
\* one key than max_connections, and the key's count is below the ceiling.
C25_Witness ==
    \E k \in ServiceKeys :
       /\ Cardinality({h \in tracked : <<k, h>> \in held}) > max_connections
       /\ k \in DOMAIN connection_count
       /\ connection_count[k] < max_connections

\* C26: no count is negative (every handle is given back at most once, by
\* the caller that got it from get_toolset).
C26_CountNeverNegative ==
    \A k \in DOMAIN connection_count : connection_count[k] >= 0

\* C26 witness: a handle got before a cleanup_all was given back after it,
\* to a full free list, and the count went below zero.
C26_Witness ==
    /\ obs.op = "return_toolset" /\ obs.how = "closed"
    /\ connection_count[obs.key] = -1
    /\ obs.arg \in tracked

\* C27: the locks are used in order (LockOrder), and a thread at a lock
\* gets past it.
C27_DeadlockFreedom ==
    /\ []LockOrder
    /\ \A t \in Threads : AtLock(t) ~> ~AtLock(t)

\* C27 witness: one thread is in cleanup_toolsets with the cache's lock and
\* asks for the pool's lock, which another thread holds in cleanup_all.
C27_Witness ==
    \E t, u \in Threads :
       /\ call[t].op = "cleanup_toolsets" /\ call[t].pc = "teardown"
       /\ cache_lock = t
       /\ call[u].op = "cleanup_all" /\ pool_lock = u

\* C28: no request of a TravelPlanningSystem ran against a handle that
\* had been passed to return_toolset or to _close_toolset.
C28_NoUseAfterTeardown ==
    plan.pc = "system" => plan.stale = {}

\* C28 witness: the second plan_trip_coordinated_sync of one system ran
\* against the handles that the first had released and disposed of.
C28_Witness ==
    /\ plan.pc = "system" /\ plan.requests = 2
    /\ plan.last = "plan_trip_coordinated_sync"
    /\ plan.stale = ToolsOf(plan)
    /\ ToolsOf(plan) \subseteq plan.released \cap plan.disposed

\* C29: with _get_or_create_toolset and cleanup_toolsets the only handlers
\* called, between two calls every free list is empty, and no
\* _get_or_create_toolset returns a handle taken from a free list: a miss
\* constructs.
C29_NoReuseThroughCache ==
    /\ \A k \in DOMAIN pools : pools[k] = <<>>
    /\ obs.op = "_get_or_create_toolset" =>
          /\ obs.how # "reused"
          /\ obs.acquires = 1 /\ ~obs.raised => obs.attempts = 1

\* C29 witness: after a cleanup_toolsets that gave the key's handle back,
\* the next _get_or_create_toolset of the key constructed a new one.
C29_Witness ==
    /\ obs.op = "_get_or_create_toolset" /\ obs.how = "pooled"
    /\ obs.ret = 2 /\ obs.passed = {}
    /\ DOMAIN connection_count = {obs.key}
    /\ connection_count[obs.key] = 1

\* C30: one call of _close_toolset calls or schedules at most one disposal
\* method of the handle, and none twice.
C30_SingleDisposal ==
    disposal.pc = "done" /\ disposal.shape \in Shapes
    => /\ Len(disposal.r.calls) <= 1
       /\ \A i, j \in 1..Len(disposal.r.calls) :
             disposal.r.calls[i].op = disposal.r.calls[j].op => i = j

\* C30 witness: inside an event loop, the close of a handle without
\* cleanup raised RuntimeError and was called a second time.
C30_Witness ==
    /\ disposal.pc = "done" /\ disposal.loop
    /\ disposal.shape.close = "sync" /\ disposal.shape.cleanup = "absent"
    /\ disposal.shape.exc = "RuntimeError"
    /\ disposal.r.calls = <<[op |-> "close", how |-> "raised"],
                            [op |-> "close", how |-> "raised"]>>

====
